---- MODULE Spec2Model ----
(***************************************************************************)
(* Chicken-parts detection and counting (YOLOv7 + ByteTrack).              *)
(*                                                                         *)
(* The module models src/Self_ChickOut_Vision.ipynb:                       *)
(*   - Detections (__init__, filter, __iter__),                            *)
(*   - ObjectDetector.match_detections_with_tracks, statement by statement *)
(*     (SpecMatch) and as a pure operator,                                 *)
(*   - ObjectDetector.process_frame, up to the detector's answer and from  *)
(*     there to the return (Spec),                                         *)
(*   - sequences of Detections.filter calls (SpecFilter),                  *)
(*   - process_frame with a detector or tracker that may fail (SpecFaults),*)
(*   - the IoU of one pair of boxes (SpecIoU).                             *)
(*                                                                         *)
(* The detector (YOLOv7 + non_max_suppression) and the tracker             *)
(* (BYTETracker.update) are external collaborators: their results are      *)
(* drawn from bounded sets.  box_iou_batch is imported from onemetric; it  *)
(* is modelled from the formula of the specification (section 4.1), with   *)
(* IoU values kept as exact fractions <<numerator, denominator>>.          *)
(*                                                                         *)
(* Boxes are tuples <<x1, y1, x2, y2>> with x1 <= x2 and y1 <= y2: the     *)
(* detector decodes a box from a centre and a non-negative width/height,   *)
(* and scale_coords(...).round() can collapse a side to zero length but    *)
(* never inverts it.  Track boxes (STrack.tlbr, from the tracker's motion  *)
(* model) have positive width and height.                                  *)
(***************************************************************************)
EXTENDS Integers, Sequences, FiniteSets, TLC

VARIABLES
    \* ---- match_detections_with_tracks, statement by statement ----
    m_pc,            \* "call" | "loop" | "returned"
    m_xyxy,          \* argument detections.xyxy
    m_tracks,        \* argument tracks: sequence of [tlbr, track_id]
    m_iou,           \* IoU matrix of the arguments (local iou once line 469 has run)
    m_track2detection, \* local track2detection (Unset before line 470)
    tracker_index,   \* loop variable of the for loop (1-based here)
    tracker_ids,     \* local list tracker_ids
    m_writes,        \* history: number of stores into each slot of tracker_ids
    m_result,        \* returned list
    \* ---- process_frame ----
    pc,              \* "idle" (no call in progress) | "detected" (the detector has returned)
    frames,          \* number of process_frame calls made
    tracker_calls,   \* number of byte_tracker.update calls made
    pred,            \* pred[0] of the last call: rows [xyxy, confidence, class_id]
    detections,      \* local Detections object of the last call (Unset if none)
    tracker_input,   \* output_results handed to byte_tracker.update (Unset if none)
    tracks,          \* list returned by byte_tracker.update (Unset if none)
    class_counts,    \* returned dict, as a sequence of <<name, count>>
    chicken_parts,   \* returned list of class names
    outcome,         \* how the last call ended: "none" | "running" | "returned" | "raised"
    fault,           \* what went wrong in the last call: "none" | "detector" |
                     \* "tracker" (update raised) | "malformed" (unusable track list)
    prev_fault,      \* history: fault of the call before the last one
    \* ---- sequences of Detections.filter calls ----
    f_det,           \* the Detections object
    f_prev,          \* the object as it was before the last filter call
    f_mask,          \* mask of the last filter call
    f_op,            \* "init" | "inplace" | "copy" | "assign"
    \* ---- one IoU of box_iou_batch ----
    iou_a,           \* a box of boxes_true
    iou_b,           \* a box of boxes_detection
    iou_value        \* the matrix entry for the pair (Unset before the call)

match_vars == <<m_pc, m_xyxy, m_tracks, m_iou, m_track2detection, tracker_index,
                tracker_ids, m_writes, m_result>>
frame_vars == <<pc, frames, tracker_calls, pred, detections, tracker_input, tracks,
                class_counts, chicken_parts, outcome, fault, prev_fault>>
filter_vars == <<f_det, f_prev, f_mask, f_op>>
iou_vars == <<iou_a, iou_b, iou_value>>
vars == <<match_vars, frame_vars, filter_vars, iou_vars>>

-----------------------------------------------------------------------------
(* Bounds of the model *)
MaxDets == 3
MaxTracks == 2
MaxFrames == 2
MaxFilterLen == 3
MaxCoord == 2

-----------------------------------------------------------------------------
(* Values *)

\* Python's None as an entry of a track-id list.  BYTETracker numbers its
\* tracks from 1, so 0 is free to stand for None.
None == 0

\* An optional value: Unset is Python's None for a whole attribute or local,
\* Some(v) is the value v.
Unset == <<>>
Some(v) == <<v>>

BoxA == <<0, 0, 2, 2>>
BoxB == <<1, 0, 3, 2>>
BoxC == <<4, 4, 6, 6>>
BoxZ == <<0, 0, 0, 0>>
BoxD == <<1, 1, 1, 2>>

\* Detection boxes and tracks of SpecMatch.
Boxes == {BoxA, BoxB, BoxC, BoxZ}
STrack(box, id) == [tlbr |-> box, track_id |-> id]
STracks == {STrack(BoxA, 1), STrack(BoxB, 2), STrack(BoxB, 1), STrack(BoxC, 2)}

RECURSIVE SeqsUpTo(_, _)
\* All sequences over S of length at most n.
SeqsUpTo(S, n) ==
    IF n = 0 THEN {<<>>}
    ELSE LET shorter == SeqsUpTo(S, n - 1)
         IN  shorter \cup {Append(s, x) : s \in {t \in shorter : Len(t) = n - 1}, x \in S}

Min(a, b) == IF a <= b THEN a ELSE b
Max(a, b) == IF a >= b THEN a ELSE b

-----------------------------------------------------------------------------
(* box_iou_batch (onemetric), from the formula of the specification *)

BoxArea(b) == (b[3] - b[1]) * (b[4] - b[2])

InterArea(a, b) ==
    Max(0, Min(a[3], b[3]) - Max(a[1], b[1])) * Max(0, Min(a[4], b[4]) - Max(a[2], b[2]))

UnionAreaSum(a, b) == BoxArea(a) + BoxArea(b)

UnionArea(a, b) == BoxArea(a) + BoxArea(b) - InterArea(a, b)

\* IoU as a fraction <<n, d>> with d > 0; 0 when the union is 0.
box_iou(a, b) ==
    IF UnionArea(a, b) = 0 THEN <<0, 1>> ELSE <<InterArea(a, b), UnionArea(a, b)>>

box_iou_batch(boxes_true, boxes_detection) ==
    [i \in 1..Len(boxes_true) |->
        [j \in 1..Len(boxes_detection) |-> box_iou(boxes_true[i], boxes_detection[j])]]

\* p < q for fractions with positive denominators
FracLess(p, q) == p[1] * q[2] < q[1] * p[2]
\* p != 0
FracNonZero(p) == p[1] # 0

-----------------------------------------------------------------------------
(* match_detections_with_tracks *)

\* np.any(detections.xyxy): some coordinate of some box is non-zero
NpAny(xyxy) == \E i \in 1..Len(xyxy) : \E k \in 1..4 : xyxy[i][k] # 0

tracks2boxes(trks) == [i \in 1..Len(trks) |-> trks[i].tlbr]

RECURSIVE ArgMaxScan(_, _, _)
\* np.argmax over one row: scan left to right, keep the first maximum
ArgMaxScan(row, j, best) ==
    IF j > Len(row) THEN best
    ELSE ArgMaxScan(row, j + 1, IF FracLess(row[best], row[j]) THEN j ELSE best)

RECURSIVE ArgMaxScanLast(_, _, _)
ArgMaxScanLast(row, j, best) ==
    IF j > Len(row) THEN best
    ELSE ArgMaxScanLast(row, j + 1, IF FracLess(row[j], row[best]) THEN best ELSE j)

ArgMaxLast(row) == ArgMaxScanLast(row, 2, 1)

ArgMax(row) == ArgMaxScan(row, 2, 1)

\* np.argmax(iou, axis=1)
ArgMaxRows(iou) == [i \in 1..Len(iou) |-> ArgMax(iou[i])]

\* the guard of the early return
EarlyReturn(xyxy, trks) == ~NpAny(xyxy) \/ Len(trks) = 0

NonesPerTrack(xyxy, trks) == [i \in 1..Len(trks) |-> None]

\* [None] * len(detections.xyxy)
Nones(xyxy, trks) == [i \in 1..Len(xyxy) |-> None]

AlwaysAssigns(iou, track2detection, ti) == TRUE

\* the test of the loop body: iou[tracker_index, detection_index] != 0
Assigns(iou, track2detection, ti) == FracNonZero(iou[ti][track2detection[ti]])

AssignStepFirstWins(ids, iou, track2detection, trks, ti) ==
    IF Assigns(iou, track2detection, ti) /\ ids[track2detection[ti]] = None
    THEN [ids EXCEPT ![track2detection[ti]] = trks[ti].track_id]
    ELSE ids

AssignStepTrackSlot(ids, iou, track2detection, trks, ti) ==
    IF Assigns(iou, track2detection, ti) /\ ti <= Len(ids)
    THEN [ids EXCEPT ![ti] = trks[ti].track_id]
    ELSE ids

AssignStepBestIoU(ids, iou, track2detection, trks, ti) ==
    IF /\ Assigns(iou, track2detection, ti)
       /\ ~\E s \in 1..(ti - 1) :
              /\ track2detection[s] = track2detection[ti]
              /\ FracLess(iou[ti][track2detection[ti]], iou[s][track2detection[ti]])
    THEN [ids EXCEPT ![track2detection[ti]] = trks[ti].track_id]
    ELSE ids

\* one iteration of the for loop
AssignStep(ids, iou, track2detection, trks, ti) ==
    IF Assigns(iou, track2detection, ti)
    THEN [ids EXCEPT ![track2detection[ti]] = trks[ti].track_id]
    ELSE ids

RECURSIVE AssignLoop(_, _, _, _, _)
\* the for loop from iteration ti on
AssignLoop(ids, iou, track2detection, trks, ti) ==
    IF ti > Len(trks) THEN ids
    ELSE AssignLoop(AssignStep(ids, iou, track2detection, trks, ti),
                    iou, track2detection, trks, ti + 1)

\* what line 469 computes from the arguments
IoUMatrix(xyxy, trks) == box_iou_batch(tracks2boxes(trks), xyxy)

\* the whole function
match_detections_with_tracks(xyxy, trks) ==
    IF EarlyReturn(xyxy, trks) THEN Nones(xyxy, trks)
    ELSE LET iou == IoUMatrix(xyxy, trks)
         IN  AssignLoop(Nones(xyxy, trks), iou, ArgMaxRows(iou), trks, 1)

MatchEarlyReturn ==
    /\ m_pc = "call"
    /\ EarlyReturn(m_xyxy, m_tracks)
    /\ m_result' = Nones(m_xyxy, m_tracks)
    /\ m_pc' = "returned"
    /\ UNCHANGED <<m_xyxy, m_tracks, m_iou, m_track2detection, tracker_index,
                   tracker_ids, m_writes>>
    /\ UNCHANGED <<frame_vars, filter_vars, iou_vars>>

MatchEnterLoop ==
    /\ m_pc = "call"
    /\ ~EarlyReturn(m_xyxy, m_tracks)
    /\ m_track2detection' = ArgMaxRows(m_iou)
    /\ tracker_ids' = Nones(m_xyxy, m_tracks)
    /\ m_writes' = [i \in 1..Len(m_xyxy) |-> 0]
    /\ tracker_index' = 1
    /\ m_pc' = "loop"
    /\ UNCHANGED <<m_xyxy, m_tracks, m_iou, m_result>>
    /\ UNCHANGED <<frame_vars, filter_vars, iou_vars>>

MatchLoopStep ==
    /\ m_pc = "loop"
    /\ tracker_index <= Len(m_tracks)
    /\ tracker_ids' = AssignStep(tracker_ids, m_iou, m_track2detection, m_tracks, tracker_index)
    /\ m_writes' = IF Assigns(m_iou, m_track2detection, tracker_index)
                   THEN [m_writes EXCEPT ![m_track2detection[tracker_index]] = @ + 1]
                   ELSE m_writes
    /\ tracker_index' = tracker_index + 1
    /\ UNCHANGED <<m_pc, m_xyxy, m_tracks, m_iou, m_track2detection, m_result>>
    /\ UNCHANGED <<frame_vars, filter_vars, iou_vars>>

MatchReturn ==
    /\ m_pc = "loop"
    /\ tracker_index > Len(m_tracks)
    /\ m_result' = tracker_ids
    /\ m_pc' = "returned"
    /\ UNCHANGED <<m_xyxy, m_tracks, m_iou, m_track2detection, tracker_index,
                   tracker_ids, m_writes>>
    /\ UNCHANGED <<frame_vars, filter_vars, iou_vars>>

-----------------------------------------------------------------------------
(* Detections *)

\* Detections.__init__
Detections(xyxy, confidence, class_id) ==
    [xyxy |-> xyxy, confidence |-> confidence, class_id |-> class_id, tracker_id |-> Unset]

RECURSIVE MaskSelect(_, _)
\* numpy boolean indexing, array[mask]: the entries whose mask entry is true
MaskSelect(arr, mask) ==
    IF arr = <<>> THEN <<>>
    ELSE LET rest == MaskSelect(Tail(arr), Tail(mask))
         IN  IF Head(mask) THEN <<Head(arr)>> \o rest ELSE rest

FilterTrackerIdKept(self, mask) == self.tracker_id

\* the tracker_id branch of the in-place filter
FilterTrackerId(self, mask) ==
    IF self.tracker_id # Unset THEN Some(MaskSelect(self.tracker_id[1], mask)) ELSE Unset

\* Detections.filter: the object after the call when inplace, the returned
\* object otherwise
filter(self, mask, inplace) ==
    IF inplace
    THEN [xyxy |-> MaskSelect(self.xyxy, mask),
          confidence |-> MaskSelect(self.confidence, mask),
          class_id |-> MaskSelect(self.class_id, mask),
          tracker_id |-> FilterTrackerId(self, mask)]
    ELSE Detections(MaskSelect(self.xyxy, mask),
                    MaskSelect(self.confidence, mask),
                    MaskSelect(self.class_id, mask))

\* a Detections object built from rows [xyxy, confidence, class_id]
FromRows(rows) ==
    Detections([i \in 1..Len(rows) |-> rows[i].xyxy],
               [i \in 1..Len(rows) |-> rows[i].confidence],
               [i \in 1..Len(rows) |-> rows[i].class_id])

\* Detections.__iter__: zip of the four arrays (tracker_id has been assigned)
Iter(self) ==
    LET ids == IF Len(self.tracker_id[1]) > 0 THEN self.tracker_id[1]
               ELSE [i \in 1..Len(self.xyxy) |-> None]
        n == Min(Min(Len(self.xyxy), Len(self.confidence)), Min(Len(self.class_id), Len(ids)))
    IN  [i \in 1..n |-> [xyxy |-> self.xyxy[i], confidence |-> self.confidence[i],
                         class_id |-> self.class_id[i], tracker_id |-> ids[i]]]

-----------------------------------------------------------------------------
(* process_frame *)

\* self.names: class id -> class name
CLASS_NAMES_DICT == (0 :> "breast") @@ (1 :> "thigh")
\* class ids of interest
CLASS_ID == DOMAIN CLASS_NAMES_DICT

Row(box, conf, cls) == [xyxy |-> box, confidence |-> conf, class_id |-> cls]

\* Rows the detector can return (after non_max_suppression and scale_coords):
\* a breast, a thigh whose box has collapsed to zero width, and a row of a
\* class that has no entry in self.names (confidence in tenths).
DetectorRows == {Row(BoxA, 9, 0), Row(BoxD, 8, 1), Row(BoxC, 7, 2)}
PredSet == SeqsUpTo(DetectorRows, MaxDets)

\* Lists byte_tracker.update can return
FrameTracks == {STrack(BoxA, 1), STrack(BoxB, 2)}
TrackerOutputs == SeqsUpTo(FrameTracks, MaxTracks)

\* detections2boxes: np.hstack((xyxy, confidence[:, np.newaxis]))
detections2boxes(dets) ==
    [i \in 1..Len(dets.xyxy) |-> Append(dets.xyxy[i], dets.confidence[i])]

\* dict.get(key, default) on a dict kept as a sequence of <<key, value>>
DictGet(d, k, default) ==
    IF \E i \in 1..Len(d) : d[i][1] = k
    THEN d[CHOOSE i \in 1..Len(d) : d[i][1] = k][2]
    ELSE default

\* d[key] = value: a present key keeps its place, a new key goes last
DictSet(d, k, v) ==
    IF \E i \in 1..Len(d) : d[i][1] = k
    THEN [d EXCEPT ![CHOOSE i \in 1..Len(d) : d[i][1] = k] = <<k, v>>]
    ELSE Append(d, <<k, v>>)

CountStepSetsOne(counts, class_name) == DictSet(counts, class_name, 1)

\* class_counts[class_name] = class_counts.get(class_name, 0) + 1
CountStep(counts, class_name) ==
    DictSet(counts, class_name, DictGet(counts, class_name, 0) + 1)

RECURSIVE CountLoop(_, _, _)
\* the annotation loop, as far as class_counts goes
CountLoop(items, i, counts) ==
    IF i > Len(items) THEN counts
    ELSE CountLoop(items, i + 1, CountStep(counts, CLASS_NAMES_DICT[items[i].class_id]))

RECURSIVE PartsLoop(_, _, _)
\* the annotation loop, as far as chicken_parts goes
PartsLoop(items, i, parts) ==
    IF i > Len(items) THEN parts
    ELSE PartsLoop(items, i + 1, Append(parts, CLASS_NAMES_DICT[items[i].class_id]))

StaleClassCounts == class_counts

\* class_counts = {} and chicken_parts = [] at the top of process_frame
NewClassCounts == <<>>
NewChickenParts == <<>>

\* mask of the allow-list filter
ClassMask(dets) == [i \in 1..Len(dets.class_id) |-> dets.class_id[i] \in CLASS_ID]

\* process_frame from its first line to the detector's answer (pred after
\* non_max_suppression)
ProcessFrameBegin ==
    /\ pc = "idle"
    /\ frames < MaxFrames
    /\ frames' = frames + 1
    /\ class_counts' = NewClassCounts
    /\ chicken_parts' = NewChickenParts
    /\ pred' \in PredSet
    /\ detections' = Unset
    /\ tracker_input' = Unset
    /\ tracks' = Unset
    /\ pc' = "detected"
    /\ outcome' = "running"
    /\ fault' = "none"
    /\ prev_fault' = fault
    /\ UNCHANGED tracker_calls
    /\ UNCHANGED <<match_vars, filter_vars, iou_vars>>

\* the rest of process_frame when len(pred[0]) > 0 is false: the if block is
\* skipped
ProcessFrameNoDetections ==
    /\ pc = "detected"
    /\ Len(pred) = 0
    /\ pc' = "idle"
    /\ outcome' = "returned"
    /\ UNCHANGED <<frames, tracker_calls, pred, detections, tracker_input, tracks,
                   class_counts, chicken_parts, fault, prev_fault>>
    /\ UNCHANGED <<match_vars, filter_vars, iou_vars>>

\* the rest of process_frame when len(pred[0]) > 0: filter, tracker update,
\* association, counting
ProcessFrameDetections ==
    /\ pc = "detected"
    /\ Len(pred) > 0
    /\ \E trks \in TrackerOutputs :
          LET created == FromRows(pred)
              filtered == filter(created, ClassMask(created), TRUE)
              tracker_id == match_detections_with_tracks(filtered.xyxy, trks)
              tracked == [filtered EXCEPT !.tracker_id = Some(tracker_id)]
          IN  /\ tracker_input' = Some(detections2boxes(filtered))
              /\ tracks' = Some(trks)
              /\ tracker_calls' = tracker_calls + 1
              /\ detections' = Some(tracked)
              /\ class_counts' = CountLoop(Iter(tracked), 1, class_counts)
              /\ chicken_parts' = PartsLoop(Iter(tracked), 1, chicken_parts)
    /\ pc' = "idle"
    /\ outcome' = "returned"
    /\ UNCHANGED <<frames, pred, fault, prev_fault>>
    /\ UNCHANGED <<match_vars, filter_vars, iou_vars>>

\* a track list byte_tracker.update must not return: an entry without a box
MalformedTracks == <<[track_id |-> 1]>>
TrackerFaults == {"tracker", "malformed"}

\* process_frame when self.model (or non_max_suppression) raises: no
\* try/except in process_frame, the exception leaves the call with the locals
\* as they are at line 311
ProcessFrameDetectorFails ==
    /\ pc = "idle"
    /\ frames < MaxFrames
    /\ frames' = frames + 1
    /\ class_counts' = NewClassCounts
    /\ chicken_parts' = NewChickenParts
    /\ pred' = <<>>
    /\ detections' = Unset
    /\ tracker_input' = Unset
    /\ tracks' = Unset
    /\ pc' = "idle"
    /\ outcome' = "raised"
    /\ fault' = "detector"
    /\ prev_fault' = fault
    /\ UNCHANGED tracker_calls
    /\ UNCHANGED <<match_vars, filter_vars, iou_vars>>

ProcessFrameTrackerFailsSwallowed ==
    /\ pc = "detected"
    /\ Len(pred) > 0
    /\ \E kind \in TrackerFaults :
          LET created == FromRows(pred)
              filtered == filter(created, ClassMask(created), TRUE)
              tracker_id == match_detections_with_tracks(filtered.xyxy, <<>>)
              tracked == [filtered EXCEPT !.tracker_id = Some(tracker_id)]
          IN  /\ tracker_input' = Some(detections2boxes(filtered))
              /\ tracks' = Some(<<>>)
              /\ tracker_calls' = tracker_calls + 1
              /\ detections' = Some(tracked)
              /\ class_counts' = CountLoop(Iter(tracked), 1, class_counts)
              /\ chicken_parts' = PartsLoop(Iter(tracked), 1, chicken_parts)
              /\ fault' = kind
    /\ pc' = "idle"
    /\ outcome' = "returned"
    /\ UNCHANGED <<frames, pred, prev_fault>>
    /\ UNCHANGED <<match_vars, filter_vars, iou_vars>>

\* the rest of process_frame when len(pred[0]) > 0 and byte_tracker.update
\* raises (line 357), or returns a list that tracks2boxes cannot read so that
\* match_detections_with_tracks raises (line 363): the exception leaves the
\* call before line 364, detections.tracker_id still unset, nothing returned
ProcessFrameTrackerFails ==
    /\ pc = "detected"
    /\ Len(pred) > 0
    /\ \E kind \in TrackerFaults :
          LET created == FromRows(pred)
              filtered == filter(created, ClassMask(created), TRUE)
          IN  /\ tracker_input' = Some(detections2boxes(filtered))
              /\ tracks' = IF kind = "malformed" THEN Some(MalformedTracks) ELSE Unset
              /\ tracker_calls' = tracker_calls + 1
              /\ detections' = Some(filtered)
              /\ fault' = kind
    /\ pc' = "idle"
    /\ outcome' = "raised"
    /\ UNCHANGED <<frames, pred, class_counts, chicken_parts, prev_fault>>
    /\ UNCHANGED <<match_vars, filter_vars, iou_vars>>

-----------------------------------------------------------------------------
(* Initial values of the variables a specification does not use *)

MatchIdle ==
    /\ m_pc = "returned"
    /\ m_xyxy = <<>>
    /\ m_tracks = <<>>
    /\ m_iou = <<>>
    /\ m_track2detection = Unset
    /\ tracker_index = 1
    /\ tracker_ids = <<>>
    /\ m_writes = <<>>
    /\ m_result = <<>>

FrameIdle ==
    /\ pc = "idle"
    /\ frames = 0
    /\ tracker_calls = 0
    /\ pred = <<>>
    /\ detections = Unset
    /\ tracker_input = Unset
    /\ tracks = Unset
    /\ class_counts = <<>>
    /\ chicken_parts = <<>>
    /\ outcome = "none"
    /\ fault = "none"
    /\ prev_fault = "none"

FilterIdle ==
    /\ f_det = Unset
    /\ f_prev = Unset
    /\ f_mask = <<>>
    /\ f_op = "init"

IoUIdle ==
    /\ iou_a = BoxZ
    /\ iou_b = BoxZ
    /\ iou_value = Unset

-----------------------------------------------------------------------------
(* Spec: process_frame called on one frame after another *)

Init == MatchIdle /\ FrameIdle /\ FilterIdle /\ IoUIdle

Next ==
    \/ ProcessFrameBegin
    \/ ProcessFrameNoDetections
    \/ ProcessFrameDetections

Spec == Init /\ [][Next]_vars

-----------------------------------------------------------------------------
(* SpecFaults: process_frame called on one frame after another, by a caller *)
(* that goes on after a call has raised, with a detector and a tracker that *)
(* may fail                                                                *)

NextFaults ==
    \/ ProcessFrameBegin
    \/ ProcessFrameNoDetections
    \/ ProcessFrameDetections
    \/ ProcessFrameDetectorFails
    \/ ProcessFrameTrackerFails

SpecFaults == Init /\ [][NextFaults]_vars

-----------------------------------------------------------------------------
(* SpecMatch: one call of match_detections_with_tracks on any arguments *)

InitMatch ==
    /\ m_pc = "call"
    /\ m_xyxy \in SeqsUpTo(Boxes, MaxDets)
    /\ m_tracks \in SeqsUpTo(STracks, MaxTracks)
    /\ m_iou = IoUMatrix(m_xyxy, m_tracks)
    /\ m_track2detection = Unset
    /\ tracker_index = 1
    /\ tracker_ids = <<>>
    /\ m_writes = [i \in 1..Len(m_xyxy) |-> 0]
    /\ m_result = <<>>
    /\ FrameIdle
    /\ FilterIdle
    /\ IoUIdle

NextMatch ==
    \/ MatchEarlyReturn
    \/ MatchEnterLoop
    \/ MatchLoopStep
    \/ MatchReturn

SpecMatch == InitMatch /\ [][NextMatch]_vars

-----------------------------------------------------------------------------
(* SpecFilter: any sequence of filter calls and tracker_id assignments on   *)
(* one Detections object                                                   *)

FilterRows == {Row(BoxA, 9, 0), Row(BoxB, 8, 1)}
TrackerIdValues == {None, 1}
Masks(n) == [1..n -> BOOLEAN]

InitFilter ==
    /\ f_det \in {FromRows(rows) : rows \in SeqsUpTo(FilterRows, MaxFilterLen)}
    /\ f_prev = f_det
    /\ f_mask = [i \in 1..Len(f_det.xyxy) |-> TRUE]
    /\ f_op = "init"
    /\ MatchIdle
    /\ FrameIdle
    /\ IoUIdle

\* detections.filter(mask=mask, inplace=True)
FilterInplace ==
    /\ \E mask \in Masks(Len(f_det.xyxy)) :
           /\ f_prev' = f_det
           /\ f_mask' = mask
           /\ f_det' = filter(f_det, mask, TRUE)
           /\ f_op' = "inplace"
    /\ UNCHANGED <<match_vars, frame_vars, iou_vars>>

\* detections = detections.filter(mask=mask)
FilterCopy ==
    /\ \E mask \in Masks(Len(f_det.xyxy)) :
           /\ f_prev' = f_det
           /\ f_mask' = mask
           /\ f_det' = filter(f_det, mask, FALSE)
           /\ f_op' = "copy"
    /\ UNCHANGED <<match_vars, frame_vars, iou_vars>>

\* detections.tracker_id = np.array(tracker_id), one entry per detection
AssignTrackerId ==
    /\ \E ids \in [1..Len(f_det.xyxy) -> TrackerIdValues] :
           /\ f_det' = [f_det EXCEPT !.tracker_id = Some(ids)]
           /\ f_op' = "assign"
           /\ UNCHANGED <<f_prev, f_mask>>
    /\ UNCHANGED <<match_vars, frame_vars, iou_vars>>

NextFilter ==
    \/ FilterInplace
    \/ FilterCopy
    \/ AssignTrackerId

SpecFilter == InitFilter /\ [][NextFilter]_vars

-----------------------------------------------------------------------------
(* SpecIoU: box_iou_batch applied to one pair of boxes with integer        *)
(* coordinates, as match_detections_with_tracks applies it to every pair   *)
(* of a track box and a detection box                                      *)

Coords == 0..MaxCoord
GridBoxes == {<<x1, y1, x2, y2>> : x1 \in Coords, y1 \in Coords, x2 \in Coords, y2 \in Coords}
Box10 == <<0, 0, 10, 10>>
Box30 == <<20, 20, 30, 30>>
IoUBoxes == {b \in GridBoxes : b[1] <= b[3] /\ b[2] <= b[4]} \cup {Box10, Box30}

InitIoU ==
    /\ iou_a \in IoUBoxes
    /\ iou_b \in IoUBoxes
    /\ iou_value = Unset
    /\ MatchIdle
    /\ FrameIdle
    /\ FilterIdle

\* iou = box_iou_batch(tracks_boxes, detections.xyxy), one entry of it
ComputeIoU ==
    /\ iou_value = Unset
    /\ iou_value' = Some(box_iou_batch(<<iou_a>>, <<iou_b>>)[1][1])
    /\ UNCHANGED <<iou_a, iou_b>>
    /\ UNCHANGED <<match_vars, frame_vars, filter_vars>>

NextIoU == ComputeIoU

SpecIoU == InitIoU /\ [][NextIoU]_vars

-----------------------------------------------------------------------------
(* What the claim about the IoU speaks of *)

\* the unit cells of the integer grid that a box covers
Cells(box) == (box[1]..(box[3] - 1)) \X (box[2]..(box[4] - 1))
NoOverlap(a, b) == Cells(a) \cap Cells(b) = {}
ValidBox(box) == box[1] < box[3] /\ box[2] < box[4]

\* C12: the IoU of a pair of boxes with integer coordinates is a fraction
\* with a positive denominator that equals 1 when the two boxes are one
\* valid box (x1 < x2, y1 < y2, so of positive area) and equals 0 when the
\* boxes do not overlap (they share no cell of the grid: apart, touching, or
\* one of them of zero area, the union being 0 included).
C12_IoUOfIdenticalAndDisjoint ==
    iou_value # Unset =>
        LET v == iou_value[1]
        IN  /\ v[2] > 0
            /\ (iou_a = iou_b /\ ValidBox(iou_a)) => v[1] = v[2]
            /\ NoOverlap(iou_a, iou_b) => v[1] = 0

\* (0,0,10,10) with itself: 100/100.
C12_Witness ==
    /\ iou_a = Box10
    /\ iou_b = Box10
    /\ iou_value = Some(<<100, 100>>)

-----------------------------------------------------------------------------
(* What the claim about Detections.filter speaks of *)

TrueSet(mask) == {i \in 1..Len(mask) : mask[i]}
\* the index of the k-th true entry of mask
NthTrue(mask, k) ==
    CHOOSE i \in TrueSet(mask) : Cardinality({j \in TrueSet(mask) : j <= i}) = k

\* arr is what is left of old under mask: as long as the true entries are
\* many, the k-th entry being old's entry at the k-th true index
Survivors(arr, old, mask) ==
    /\ Len(arr) = Cardinality(TrueSet(mask))
    /\ \A k \in 1..Len(arr) : arr[k] = old[NthTrue(mask, k)]

\* C8: after filter(mask, inplace=True) the four arrays have the length of
\* the number of true mask entries, the i-th entry of each belongs to the
\* same original detection (the i-th one kept) and the kept entries keep
\* their order; a tracker_id that is still unset stays unset.  After any
\* sequence of calls the arrays have one length.
C8_FilterKeepsAlignment ==
    /\ Len(f_det.confidence) = Len(f_det.xyxy)
    /\ Len(f_det.class_id) = Len(f_det.xyxy)
    /\ f_det.tracker_id # Unset => Len(f_det.tracker_id[1]) = Len(f_det.xyxy)
    /\ f_op = "inplace" =>
          /\ Survivors(f_det.xyxy, f_prev.xyxy, f_mask)
          /\ Survivors(f_det.confidence, f_prev.confidence, f_mask)
          /\ Survivors(f_det.class_id, f_prev.class_id, f_mask)
          /\ (f_prev.tracker_id = Unset) <=> (f_det.tracker_id = Unset)
          /\ f_prev.tracker_id # Unset =>
                Survivors(f_det.tracker_id[1], f_prev.tracker_id[1], f_mask)

\* Three detections with assigned tracker ids, the middle one filtered out,
\* the two kept ones differing in every field.
C8_Witness ==
    /\ f_op = "inplace"
    /\ f_mask = <<TRUE, FALSE, TRUE>>
    /\ f_prev.tracker_id # Unset
    /\ f_prev.xyxy[1] # f_prev.xyxy[3]
    /\ f_prev.tracker_id[1][1] # f_prev.tracker_id[1][3]
    /\ f_prev.tracker_id[1][2] # f_prev.tracker_id[1][3]
    /\ f_det.xyxy = <<f_prev.xyxy[1], f_prev.xyxy[3]>>
    /\ f_det.tracker_id = Some(<<f_prev.tracker_id[1][1], f_prev.tracker_id[1][3]>>)

-----------------------------------------------------------------------------
(* What the claims about process_frame speak of, stated from the rows the  *)
(* detector returned for the frame                                         *)

Allowed(row) == row.class_id \in CLASS_ID
\* the detector's rows that pass the allow-list, in order
KeptOf(p) == SelectSeq(p, Allowed)
\* their class names, in order
NamesOf(p) == [i \in 1..Len(KeptOf(p)) |-> CLASS_NAMES_DICT[KeptOf(p)[i].class_id]]
Occurrences(names, name) == Cardinality({i \in 1..Len(names) : names[i] = name})
FirstSeen(names, name) == CHOOSE i \in 1..Len(names) :
                              names[i] = name /\ \A j \in 1..(i - 1) : names[j] # name

RECURSIVE SumCounts(_)
SumCounts(counts) == IF counts = <<>> THEN 0 ELSE Head(counts)[2] + SumCounts(Tail(counts))

WellFormed(box) == box[1] < box[3] /\ box[2] < box[4]

\* a process_frame call has returned
Returned == pc = "idle" /\ frames >= 1

\* C6: a frame with no detections after filtering (the detector returning
\* nothing included) returns empty counts and an empty occurrence sequence
\* and still makes one call of the tracker, so that the tracker has been
\* called once per processed frame.
C6_TrackerCalledEveryFrame ==
    /\ pc = "idle" => tracker_calls = frames
    /\ (Returned /\ KeptOf(pred) = <<>>) =>
          /\ class_counts = <<>>
          /\ chicken_parts = <<>>
          /\ tracker_input # Unset

\* C7: every box handed to the tracker and to match_detections_with_tracks
\* has x1 < x2 and y1 < y2.
C7_ForwardedBoxesWellFormed ==
    /\ tracker_input # Unset =>
          \A i \in 1..Len(tracker_input[1]) : WellFormed(tracker_input[1][i])
    /\ detections # Unset =>
          \A i \in 1..Len(detections[1].xyxy) : WellFormed(detections[1].xyxy[i])

\* C9: the counts of a frame map each class name to the number of filtered
\* detections of that class (tracker ids play no part), keys in first-seen
\* order, the counts summing to the length of the occurrence sequence, which
\* lists one class name per filtered detection in detection order.
C9_CountsPerClass ==
    Returned =>
        LET names == NamesOf(pred)
        IN  /\ chicken_parts = names
            /\ \A i \in 1..Len(class_counts) :
                  /\ class_counts[i][2] = Occurrences(names, class_counts[i][1])
                  /\ class_counts[i][2] >= 1
            /\ \A i \in 1..Len(names) :
                  \E k \in 1..Len(class_counts) : class_counts[k][1] = names[i]
            /\ \A i, j \in 1..Len(class_counts) :
                  i < j => FirstSeen(names, class_counts[i][1])
                             < FirstSeen(names, class_counts[j][1])
            /\ SumCounts(class_counts) = Len(chicken_parts)

\* breast, thigh, breast: {"breast": 2, "thigh": 1}, with one detection
\* tracked and the others not.
C9_Witness ==
    /\ Returned
    /\ chicken_parts = <<"breast", "thigh", "breast">>
    /\ class_counts = << <<"breast", 2>>, <<"thigh", 1>> >>
    /\ detections # Unset
    /\ \E i, j \in 1..3 : /\ detections[1].tracker_id[1][i] = None
                          /\ detections[1].tracker_id[1][j] # None
                          /\ detections[1].class_id[i] = detections[1].class_id[j]

\* C10: what a call returns is a snapshot of its own frame: the counts and
\* the occurrence sequence are empty when a call begins, whatever the call
\* before left, and at the return they cover this frame's filtered
\* detections only (as many occurrences, and as large a total count, as the
\* frame has filtered detections; nothing when it has none).
C10_PerFrameSnapshot ==
    [][/\ frames' = frames + 1 =>
             (class_counts' = <<>> /\ chicken_parts' = <<>> /\ detections' = Unset)
       /\ (pc = "detected" /\ pc' = "idle") =>
             /\ pred' = pred
             /\ Len(chicken_parts') = Len(KeptOf(pred))
             /\ SumCounts(class_counts') = Len(KeptOf(pred))
             /\ KeptOf(pred) = <<>> => (class_counts' = <<>> /\ chicken_parts' = <<>>)]_vars

\* A second frame with one thigh has been processed, after a first frame in
\* which the tracker was called too.
C10_Witness ==
    /\ Returned
    /\ frames = 2
    /\ tracker_calls = 2
    /\ chicken_parts = <<"thigh">>
    /\ class_counts = << <<"thigh", 1>> >>

-----------------------------------------------------------------------------
(* What the claim about failed frames speaks of: the association of a      *)
(* frame, stated from the boxes of its filtered detections and the track   *)
(* list the tracker returned for it                                        *)

SetMax(S) == CHOOSE x \in S : \A y \in S : y <= x

KeptBoxes(p) == [i \in 1..Len(KeptOf(p)) |-> KeptOf(p)[i].xyxy]

FrameLeq(iou, t, j, k) == iou[t][j][1] * iou[t][k][2] <= iou[t][k][1] * iou[t][j][2]

\* track t's best detection among n, the lowest index among ties
FrameRowMax(iou, n, t) ==
    CHOOSE j \in 1..n :
        /\ \A k \in 1..n : FrameLeq(iou, t, k, j)
        /\ \A k \in 1..(j - 1) : ~FrameLeq(iou, t, j, k)

FrameClaimants(iou, n, trks, d) ==
    {t \in 1..Len(trks) : FrameRowMax(iou, n, t) = d /\ iou[t][d][1] > 0}

\* the ids a frame's detections get from a track list
FrameIds(xyxy, trks) ==
    LET iou == IoUMatrix(xyxy, trks)
        n == Len(xyxy)
    IN  [d \in 1..n |->
            IF FrameClaimants(iou, n, trks, d) = {} THEN None
            ELSE trks[SetMax(FrameClaimants(iou, n, trks, d))].track_id]

-----------------------------------------------------------------------------
(* What the claims about match_detections_with_tracks speak of, stated      *)
(* directly from the IoU matrix of the call's arguments (fractions with a  *)
(* positive denominator)                                                   *)

IoUOf(t, d) == m_iou[t][d]
IoUPositive(t, d) == IoUOf(t, d)[1] > 0
IoULeq(t, j, k) == IoUOf(t, j)[1] * IoUOf(t, k)[2] <= IoUOf(t, k)[1] * IoUOf(t, j)[2]

\* the row-maximum column of track t, the lowest index among ties
RowMaxCol(t) ==
    CHOOSE j \in 1..Len(m_xyxy) :
        /\ \A k \in 1..Len(m_xyxy) : IoULeq(t, k, j)
        /\ \A k \in 1..(j - 1) : ~IoULeq(t, j, k)

\* the tracks that claim detection d
Claimants(d) ==
    {t \in 1..Len(m_tracks) : RowMaxCol(t) = d /\ IoUPositive(t, d)}

DetIndices == 1..Len(m_xyxy)

DistinctTrackIds ==
    \A s, t \in 1..Len(m_tracks) : s # t => m_tracks[s].track_id # m_tracks[t].track_id

\* C1: with at least one track and one detection, every detection d gets the
\* id of the last track (in row order) whose row-maximum column (lowest index
\* among ties) is d with IoU > 0, and None when there is no such track.
C1_LastClaimantWins ==
    (m_pc = "returned" /\ Len(m_tracks) >= 1 /\ Len(m_xyxy) >= 1) =>
        /\ Len(m_result) = Len(m_xyxy)
        /\ \A d \in DetIndices :
              m_result[d] = IF Claimants(d) = {} THEN None
                            ELSE m_tracks[SetMax(Claimants(d))].track_id

\* Two tracks with different ids claim the same detection and the later one
\* is the one returned.
C1_Witness ==
    /\ m_pc = "returned"
    /\ \E d \in DetIndices :
          /\ Cardinality(Claimants(d)) >= 2
          /\ \E t \in Claimants(d) : m_tracks[t].track_id # m_result[d]
          /\ m_result[d] = m_tracks[SetMax(Claimants(d))].track_id

\* C2: with no tracks or no detections the call takes the early return (it
\* never reaches the argmax over an empty matrix) and returns one None per
\* detection, for every detection count including zero.
C2_NoTracksOrNoDetections ==
    (Len(m_tracks) = 0 \/ Len(m_xyxy) = 0) =>
        /\ m_pc # "loop"
        /\ m_pc = "call" => EarlyReturn(m_xyxy, m_tracks)
        /\ m_pc = "returned" =>
              /\ Len(m_result) = Len(m_xyxy)
              /\ \A d \in DetIndices : m_result[d] = None

\* No tracks, several detections (some with non-zero boxes): all None.
C2_Witness ==
    /\ m_pc = "returned"
    /\ Len(m_tracks) = 0
    /\ Len(m_xyxy) >= 2
    /\ NpAny(m_xyxy)
    /\ m_result = [d \in DetIndices |-> None]

\* C3 as stated: during one call every slot of tracker_ids is written at
\* most once.
C3_AtMostOneWritePerSlot ==
    \A d \in 1..Len(m_writes) : m_writes[d] <= 1

\* C3 as amended: the slots start as None; each track stores its id at most
\* once per call, into its row-maximum column when the IoU there is not
\* zero, so a slot is written once per track that claims it (possibly
\* several times, never more often than there are tracks).
C3_OneWritePerClaimingTrack ==
    /\ (m_pc = "loop" /\ tracker_index = 1) =>
          \A d \in DetIndices : tracker_ids[d] = None /\ m_writes[d] = 0
    /\ m_pc \in {"loop", "returned"} =>
          \A d \in DetIndices :
              /\ m_writes[d] = Cardinality({t \in Claimants(d) : t < tracker_index})
              /\ m_writes[d] <= Len(m_tracks)

\* A slot written twice in one call.
C3_Witness ==
    /\ m_pc = "returned"
    /\ DistinctTrackIds
    /\ \E d \in DetIndices : m_writes[d] = 2 /\ Cardinality(Claimants(d)) = 2

\* C4: in the output a detection is None exactly when no track claims it;
\* a detection with zero IoU with every track is None; every non-None entry
\* is the id of an input track whose IoU with that detection is > 0.
C4_NullIffUnclaimed ==
    m_pc = "returned" =>
        \A d \in DetIndices :
            /\ (m_result[d] = None) <=> (Claimants(d) = {})
            /\ (\A t \in 1..Len(m_tracks) : ~IoUPositive(t, d)) => m_result[d] = None
            /\ m_result[d] # None =>
                  \E t \in 1..Len(m_tracks) :
                      m_tracks[t].track_id = m_result[d] /\ IoUPositive(t, d)

\* One detection assigned, one that overlaps a track but is not its row
\* maximum, and one that overlaps no track.
C4_Witness ==
    /\ m_pc = "returned"
    /\ \E d \in DetIndices : m_result[d] # None
    /\ \E d \in DetIndices :
          /\ m_result[d] = None
          /\ \E t \in 1..Len(m_tracks) : IoUPositive(t, d)
    /\ \E d \in DetIndices :
          /\ m_result[d] = None
          /\ \A t \in 1..Len(m_tracks) : ~IoUPositive(t, d)

\* a single track of positive area equal to detection d and disjoint from
\* the other detections
SingleExactMatch(d) ==
    /\ Len(m_tracks) = 1
    /\ BoxArea(m_tracks[1].tlbr) > 0
    /\ m_xyxy[d] = m_tracks[1].tlbr
    /\ \A j \in DetIndices \ {d} : InterArea(m_tracks[1].tlbr, m_xyxy[j]) = 0

\* C5: each track gives its id to at most one detection: the non-None
\* entries are no more than the tracks, distinct track ids never appear in
\* two slots, and a single track that exactly matches one detection and
\* overlaps no other gives its id to that detection alone.
C5_OneDetectionPerTrack ==
    m_pc = "returned" =>
        /\ Cardinality({d \in DetIndices : m_result[d] # None}) <= Len(m_tracks)
        /\ DistinctTrackIds =>
              \A d, e \in DetIndices :
                  (d # e /\ m_result[d] # None) => m_result[d] # m_result[e]
        /\ \A d \in DetIndices :
              SingleExactMatch(d) =>
                  \A j \in DetIndices :
                      m_result[j] = IF j = d THEN m_tracks[1].track_id ELSE None

\* One track, three detections, the exact match not in the first column.
C5_Witness ==
    /\ m_pc = "returned"
    /\ Len(m_xyxy) = 3
    /\ \E d \in 2..3 :
          /\ SingleExactMatch(d)
          /\ m_result = [j \in 1..3 |-> IF j = d THEN m_tracks[1].track_id ELSE None]

\* track s overlaps detection d strictly more than track t does
IoUHigher(s, t, d) == IoUOf(s, d)[1] * IoUOf(t, d)[2] > IoUOf(t, d)[1] * IoUOf(s, d)[2]

\* no other track carries the id of track s
OwnId(s) ==
    \A t \in 1..Len(m_tracks) : t # s => m_tracks[t].track_id # m_tracks[s].track_id

\* C13: row order decides, not IoU: whenever two tracks have the same
\* detection as their row-maximum column, both with IoU > 0, and the earlier
\* one has the strictly higher IoU with it, the detection is still returned
\* with the id of the last track claiming it, and the earlier track's id (if
\* no other track carries it) is on no detection at all.
C13_RowOrderBeatsIoU ==
    m_pc = "returned" =>
        \A d \in DetIndices :
            \A s, t \in Claimants(d) :
                (s < t /\ IoUHigher(s, t, d)) =>
                    /\ m_result[d] = m_tracks[SetMax(Claimants(d))].track_id
                    /\ OwnId(s) => \A e \in DetIndices : m_result[e] # m_tracks[s].track_id

\* The first track equals the detection (IoU 1), the second overlaps it by a
\* third; the detection carries the second track's id and the first track's
\* id is nowhere in the result.
C13_Witness ==
    /\ m_pc = "returned"
    /\ Len(m_tracks) = 2
    /\ Len(m_xyxy) >= 1
    /\ Claimants(1) = {1, 2}
    /\ m_xyxy[1] = m_tracks[1].tlbr
    /\ IoUHigher(1, 2, 1)
    /\ m_tracks[1].track_id # m_tracks[2].track_id
    /\ m_result[1] = m_tracks[2].track_id
    /\ \A e \in DetIndices : m_result[e] # m_tracks[1].track_id

====
